---------------------------- MODULE Spec2Model ----------------------------
(***************************************************************************)
(* A model of build.js: the batch build that resolves a Concerto binding   *)
(* for every model file, compiles it, fans it out to the code generators   *)
(* and assembles the site index.                                           *)
(*                                                                         *)
(* Strings the code takes apart are sequences: a model text is a sequence  *)
(* of lines, a line a sequence of tokens, a version range a sequence of    *)
(* range tokens; a path and a file name are sequences of characters.       *)
(***************************************************************************)
EXTENDS Naturals, Sequences, FiniteSets, TLC

VARIABLES
    fn,              \* which pure function the run applies ("main" for the build)
    arg,             \* the input of that function
    ret,             \* its result, [done |-> FALSE] before the call
    limits,          \* how much of the generators the run explores, the unit names,
                     \* and the archive library of the run
    files,           \* getFiles(rootDir): the list the loop walks
    filter,          \* process.argv[2]
    forcePublish,    \* process.env.FORCE_PUBLISH
    pc,              \* position of the async main function ("start" before line 232)
    fileIdx,         \* index in files of the file at hand (0 before the loop, Len+1 after)
    cur,             \* the locals of the current iteration
    gen,             \* the locals of the current generate() call
    disk,            \* the outputs written for the file at hand, and the site index
    pending,         \* writes issued with a callback and not awaited
    log,             \* the console.log lines of the current iteration (a set)
    modelFileIndex,  \* the index accumulator
    status,          \* per file index: how its iteration ended
    indexPage        \* what was handed to the index template

vars == <<pc, pending, gen, cur, disk, log, fileIdx, status, modelFileIndex, indexPage,
          ret, fn, arg, limits, filter, forcePublish, files>>

mainVars == <<limits, files, filter, forcePublish, pc, fileIdx, cur, gen,
              disk, pending, log, modelFileIndex, status, indexPage>>

-----------------------------------------------------------------------------
(* Bounds *)

MaxLines == 2    \* lines of a model text given to the resolver
MaxFiles == 2    \* files of a whole run
MaxGens  == 2    \* entries of CODE_GENERATORS a single-file run walks
MaxUnits == 2    \* output units one generator closes

-----------------------------------------------------------------------------
(* Sequence helpers *)

Range(s) == {s[i] : i \in 1..Len(s)}

\* String.prototype.replace(pattern, '') with a string pattern: the first
\* occurrence only.
RemoveFirst(s, x) ==
    IF x \notin Range(s) THEN s
    ELSE LET i == CHOOSE k \in 1..Len(s) : s[k] = x /\ \A j \in 1..(k-1) : s[j] # x
         IN  SubSeq(s, 1, i-1) \o SubSeq(s, i+1, Len(s))

RemoveAll(s, x) == SelectSeq(s, LAMBDA t : t # x)

\* String.prototype.split(sep): the pieces between the occurrences of sep
SplitOn(s, sep) ==
    LET n    == Len(s)
        cuts == <<0>> \o SelectSeq([i \in 1..n |-> i], LAMBDA i : s[i] = sep) \o <<n + 1>>
    IN  [k \in 1..(Len(cuts) - 1) |-> SubSeq(s, cuts[k] + 1, cuts[k + 1] - 1)]

-----------------------------------------------------------------------------
(* The semver library, as far as build.js uses it.  A version is a token   *)
(* with three numeric parts; a range is a sequence of range tokens.        *)

SP == " "
OR == "||"
Ops == {">=", "<"}

\* new SemVer(version): the three numeric parts, <<>> when it does not parse
VersionParts(v) ==
    CASE v = "0.82.11" -> <<0, 82, 11>>
      [] v = "1.0.0"   -> <<1, 0, 0>>
      [] v = "2.0.0"   -> <<2, 0, 0>>
      [] v = "3.0.0"   -> <<3, 0, 0>>
      [] v = "3.1.0"   -> <<3, 1, 0>>
      [] v = "0.1.0"   -> <<0, 1, 0>>
      [] v = "1.2.3"   -> <<1, 2, 3>>
      [] OTHER         -> <<>>

IsVersion(v) == VersionParts(v) # <<>>

\* an x-range token: major.minor with the patch left open
XRangeParts(t) ==
    CASE t = "0.82"   -> <<0, 82>>
      [] t = "0.82.x" -> <<0, 82>>
      [] t = "3.x"    -> <<3>>
      [] OTHER        -> <<>>

IsXRange(t) == XRangeParts(t) # <<>>
IsOperand(t) == IsVersion(t) \/ IsXRange(t)

\* SemVer.compare
VLess(a, b) ==
    \/ a[1] < b[1]
    \/ a[1] = b[1] /\ a[2] < b[2]
    \/ a[1] = b[1] /\ a[2] = b[2] /\ a[3] < b[3]

\* the lowest version an operand admits
OperandLow(t) ==
    IF IsVersion(t) THEN VersionParts(t)
    ELSE LET x == XRangeParts(t)
         IN  IF Len(x) = 2 THEN <<x[1], x[2], 0>> ELSE <<x[1], 0, 0>>

\* the first version above an x-range
OperandHigh(t) ==
    LET x == XRangeParts(t)
    IN  IF Len(x) = 2 THEN <<x[1], x[2] + 1, 0>> ELSE <<x[1] + 1, 0, 0>>

\* Range.parseRange: the comparator trim drops the spaces between an
\* operator and the operand that follows it
ComparatorTrim(r) ==
    LET drop(i) ==
            /\ r[i] = SP
            /\ \E j \in 1..(i-1) : /\ r[j] \in Ops
                                   /\ \A k \in (j+1)..i : r[k] = SP
            /\ \E j \in (i+1)..Len(r) : /\ IsOperand(r[j])
                                        /\ \A k \in i..(j-1) : r[k] = SP
        keep == {i \in 1..Len(r) : ~drop(i)}
        F[i \in 0..Len(r)] ==
            IF i = 0 THEN <<>>
            ELSE IF i \in keep THEN F[i-1] \o <<r[i]>> ELSE F[i-1]
    IN  F[Len(r)]

\* the comparators of one ||-part: split on white space, empty pieces dropped
Comparators(part) ==
    SelectSeq(SplitOn(ComparatorTrim(part), SP), LAMBDA c : c # <<>>)

\* new Comparator(comp) does not throw
ComparatorValid(c) ==
    \/ Len(c) = 1 /\ IsOperand(c[1])
    \/ Len(c) = 2 /\ c[1] \in Ops /\ IsOperand(c[2])

\* semver.validRange(range) # null
RangeValid(r) ==
    \A p \in Range(SplitOn(r, OR)) :
        \A c \in Range(Comparators(p)) : ComparatorValid(c)

\* Comparator.test
ComparatorTest(c, v) ==
    IF Len(c) = 1
    THEN IF IsVersion(c[1]) THEN v = VersionParts(c[1])
         ELSE ~VLess(v, OperandLow(c[1])) /\ VLess(v, OperandHigh(c[1]))
    ELSE IF c[1] = ">=" THEN ~VLess(v, OperandLow(c[2]))
         ELSE VLess(v, OperandLow(c[2]))

\* semver.satisfies(version, range): false, never a throw, when the range
\* or the version does not parse
Satisfies(version, r) ==
    /\ RangeValid(r)
    /\ IsVersion(version)
    /\ \E p \in Range(SplitOn(r, OR)) :
           \A c \in Range(Comparators(p)) : ComparatorTest(c, VersionParts(version))

\* semver.lte(a, b), both valid
Lte(a, b) == ~VLess(VersionParts(b), VersionParts(a))


-----------------------------------------------------------------------------
(* concertoVersions.js: the registry of bindings.  A binding is tagged     *)
(* with its version and carries the code generators it exposes.            *)

CODE_GENERATORS ==
    << [visitor |-> "PlantUMLVisitor", ext |-> "puml", name |-> "PlantUML"],
       [visitor |-> "XmlSchemaVisitor", ext |-> "xsd", name |-> "XML Schema"],
       [visitor |-> "TypescriptVisitor", ext |-> "ts", name |-> "Typescript"],
       [visitor |-> "CSharpVisitor", ext |-> "cs", name |-> "C#"],
       [visitor |-> "ODataVisitor", ext |-> "csdl", name |-> "OData"],
       [visitor |-> "JSONSchemaVisitor", ext |-> "json", name |-> "JSON Schema"],
       [visitor |-> "GraphQLVisitor", ext |-> "gql", name |-> "GraphQL"],
       [visitor |-> "JavaVisitor", ext |-> "java", name |-> "Java"],
       [visitor |-> "GoLangVisitor", ext |-> "go", name |-> "Go"],
       [visitor |-> "AvroVisitor", ext |-> "avdl", name |-> "Avro"],
       [visitor |-> "MarkdownVisitor", ext |-> "md", name |-> "Markdown"],
       [visitor |-> "OpenAPIVisitor", ext |-> "openapi", name |-> "OpenAPI"],
       [visitor |-> "ProtobufVisitor", ext |-> "proto", name |-> "Protobuf"],
       [visitor |-> "MermaidVisitor", ext |-> "mmd", name |-> "Mermaid"] >>

VisitorNames == {CODE_GENERATORS[i].visitor : i \in 1..Len(CODE_GENERATORS)}

\* the visitors a binding's CodeGen exposes: the 0.82 line has PlantUML only,
\* the 1.x and 2.x lines lack the generators after XML Schema
CodeGenOf(v) ==
    IF Satisfies(v, <<"0.82.x">>) THEN {"PlantUMLVisitor"}
    ELSE IF VLess(VersionParts(v), <<3, 0, 0>>)
         THEN {"PlantUMLVisitor", "XmlSchemaVisitor"}
         ELSE VisitorNames

Binding(v) == [concertoVersion |-> v, CodeGen |-> CodeGenOf(v)]

\* a registry object: its version keys in insertion order, and defaultVersion
Registry(versions, default) ==
    [entries        |-> [i \in 1..Len(versions) |->
                            [version |-> versions[i], concerto |-> Binding(versions[i])]],
     defaultVersion |-> default]

Registries ==
    { Registry(<<"2.0.0", "3.0.0">>, "3.0.0"),
      Registry(<<"0.82.11", "1.0.0", "2.0.0", "3.0.0">>, "3.0.0"),
      Registry(<<"3.1.0", "3.0.0", "1.0.0">>, "3.0.0"),
      Registry(<<"1.0.0", "0.82.11", "3.1.0">>, "1.0.0") }

\* Object.entries(concertoVersions): every own key, defaultVersion among them
ObjectEntries(concertoVersions) ==
    concertoVersions.entries \o
        <<[version |-> "defaultVersion", concerto |-> concertoVersions.defaultVersion]>>

\* concertoVersions[key]
Lookup(concertoVersions, key) ==
    LET e == concertoVersions.entries
        i == CHOOSE k \in 1..Len(e) : e[k].version = key
    IN  e[i].concerto

-----------------------------------------------------------------------------
(* findCompatibleVersion *)

CV == "concerto version"     \* the words that open a declaration line
DQ == "dquote"               \* a double quote
SL == "//"
RQ == "requires:"
CC == "concerto-core:"

\* modelText.match(declarationRegex), ^concerto version "(.*)"$ on one line
DeclarationMatches(line) ==
    /\ Len(line) >= 3
    /\ line[1] = CV
    /\ line[2] = DQ
    /\ line[Len(line)] = DQ

DeclarationGroup(line) == SubSeq(line, 3, Len(line) - 1)

\* ^//.*requires:.*concerto-core:(.*)$ on one line
CommentMatches(line) ==
    /\ Len(line) >= 3
    /\ line[1] = SL
    /\ \E i \in 2..Len(line) : \E j \in (i+1)..Len(line) :
           line[i] = RQ /\ line[j] = CC

\* both .* are greedy: the group starts after the last concerto-core:
CommentGroup(line) ==
    LET j == CHOOSE k \in 1..Len(line) :
                 line[k] = CC /\ \A m \in (k+1)..Len(line) : line[m] # CC
    IN  SubSeq(line, j + 1, Len(line))

\* String.prototype.match without the g flag: the first of the lines that
\* match (0 stands for null)
FirstMatch(matching) ==
    IF matching = {} THEN 0 ELSE CHOOSE i \in matching : \A j \in matching : i <= j

\* a search that takes the comment before the declaration
VersionRangeOfCommentFirst(modelText) ==
    LET d == FirstMatch({i \in 1..Len(modelText) : DeclarationMatches(modelText[i])})
        c == FirstMatch({i \in 1..Len(modelText) : CommentMatches(modelText[i])})
    IN  IF c # 0
        THEN [found |-> TRUE, range |-> RemoveFirst(CommentGroup(modelText[c]), SP)]
        ELSE IF d # 0
             THEN [found |-> TRUE, range |-> RemoveFirst(DeclarationGroup(modelText[d]), SP)]
             ELSE [found |-> FALSE]

\* match ? match.groups.versionRange.replace(' ', '') : null
\* ([found |-> FALSE] stands for null)
VersionRangeOf(modelText) ==
    LET d == FirstMatch({i \in 1..Len(modelText) : DeclarationMatches(modelText[i])})
        c == FirstMatch({i \in 1..Len(modelText) : CommentMatches(modelText[i])})
    IN  IF d # 0
        THEN [found |-> TRUE, range |-> RemoveFirst(DeclarationGroup(modelText[d]), SP)]
        ELSE IF c # 0
             THEN [found |-> TRUE, range |-> RemoveFirst(CommentGroup(modelText[c]), SP)]
             ELSE [found |-> FALSE]

\* the callback of Object.entries(...).find: versionRange && semver.satisfies(...)
\* (null and the empty string are both falsy)
EntryFits(vr, version) ==
    /\ vr.found
    /\ vr.range # <<>>
    /\ Satisfies(version, vr.range)

\* a fallback that takes the first registry entry instead of the default
findCompatibleVersionFirstEntry(concertoVersions, modelText) ==
    LET vr      == VersionRangeOf(modelText)
        entries == ObjectEntries(concertoVersions)
        hits    == {i \in 1..Len(entries) : EntryFits(vr, entries[i].version)}
    IN  IF hits # {}
        THEN entries[CHOOSE i \in hits : \A j \in hits : i <= j].concerto
        ELSE entries[1].concerto

findCompatibleVersion(concertoVersions, modelText) ==
    LET defaultConcertoVersion == Lookup(concertoVersions, concertoVersions.defaultVersion)
        vr      == VersionRangeOf(modelText)
        entries == ObjectEntries(concertoVersions)
        hits    == {i \in 1..Len(entries) : EntryFits(vr, entries[i].version)}
    IN  IF hits # {}
        THEN entries[CHOOSE i \in hits : \A j \in hits : i <= j].concerto
        ELSE defaultConcertoVersion

-----------------------------------------------------------------------------
(* The inputs of the resolver *)

RangeSamples ==
    { <<>>,
      <<"1.0.0">>,
      <<"3.1.0">>,
      <<">=", "1.0.0">>,
      <<">=", SP, "2.0.0">>,
      <<"<", "3.0.0">>,
      <<">=", "1.0.0", SP, "<", "3.0.0">>,
      <<">=", SP, "1.0.0", SP, "<", SP, "3.0.0">>,
      <<"1.0.0", SP, OR, SP, "3.1.0">>,
      <<"0.82">>,
      <<"3.x">>,
      <<SP, "2.0.0">>,
      <<"latest">>,
      <<">=">>,
      <<"0.1.0">> }

Lines ==
    {<<CV, DQ>> \o r \o <<DQ>> : r \in RangeSamples}
        \cup {<<SL, SP, RQ, SP, CC>> \o r : r \in RangeSamples}
        \cup { <<"namespace">>,
               <<SP, CV, DQ, "1.0.0", DQ>>,
               <<CV, DQ, "1.0.0", DQ, SP>>,
               <<CV, DQ, "1.0.0">>,
               <<SL, SP, CC, "1.0.0">>,
               <<SP, SL, RQ, CC, "1.0.0">>,
               <<SL, RQ, CC, "1.0.0", SP, CC, "2.0.0">> }

Texts == UNION {[1..n -> Lines] : n \in 0..MaxLines}

-----------------------------------------------------------------------------
(* Paths and names, character by character *)

Digits == {"0", "1", "2", "3", "4", "5", "6", "7", "8", "9"}

\* the first index at which pat occurs in s, 0 when it does not
IndexOf(s, pat) ==
    LET at(i) == SubSeq(s, i, i + Len(pat) - 1) = pat
        hits  == {i \in 1..(Len(s) - Len(pat) + 1) : at(i)}
    IN  IF hits = {} THEN 0 ELSE CHOOSE i \in hits : \A j \in hits : i <= j

\* s.replace(pat, rep) with a string pattern: the first occurrence
ReplaceFirst(s, pat, rep) ==
    LET i == IndexOf(s, pat)
    IN  IF i = 0 THEN s
        ELSE SubSeq(s, 1, i - 1) \o rep \o SubSeq(s, i + Len(pat), Len(s))

\* the last index of character c in s, 0 when it does not occur
LastIndexOf(s, c) ==
    LET hits == {i \in 1..Len(s) : s[i] = c}
    IN  IF hits = {} THEN 0 ELSE CHOOSE i \in hits : \A j \in hits : j <= i

\* path.dirname of an absolute path with a file name
Dirname(path) == SubSeq(path, 1, LastIndexOf(path, "/") - 1)

\* path.basename
Basename(path) == SubSeq(path, LastIndexOf(path, "/") + 1, Len(path))

\* __dirname, rootDir and buildDir
DirName  == <<"/", "r">>
rootDir  == DirName \o <<"/", "s", "r", "c">>
buildDir == DirName \o <<"/", "b", "u", "i", "l", "d">>

\* file.match(filter): an undefined filter (<<>>) matches every path, a plain
\* word matches the paths that contain it
MatchesFilter(file, flt) == IndexOf(file, flt) # 0

\* file.replace('/src/', '/build/')
DestOf(file) == ReplaceFirst(file, <<"/", "s", "r", "c", "/">>, <<"/", "b", "u", "i", "l", "d", "/">>)

\* destPath.slice(buildDir.length)
RelativeOf(destPath) == SubSeq(destPath, Len(buildDir) + 1, Len(destPath))

\* the index of the last digit of the run of digits that starts at i
DigitsEnd(s, i) ==
    CHOOSE e \in i..Len(s) :
        /\ \A k \in i..e : s[k] \in Digits
        /\ (e = Len(s) \/ s[e + 1] \notin Digits)

\* s has a dot at i followed by a digit
DotDigits(s, i) == i + 1 <= Len(s) /\ s[i] = "." /\ s[i + 1] \in Digits

\* /v\d+(\.\d+){0,2}/ matches at i
VersionAt(s, i) == i + 1 <= Len(s) /\ s[i] = "v" /\ s[i + 1] \in Digits

\* the index of the last character of the (greedy) match that starts at i
VersionEnd(s, i) ==
    LET e1 == DigitsEnd(s, i + 1)
    IN  IF ~DotDigits(s, e1 + 1) THEN e1
        ELSE LET e2 == DigitsEnd(s, e1 + 2)
             IN  IF ~DotDigits(s, e2 + 1) THEN e2 ELSE DigitsEnd(s, e2 + 2)

\* relative.match(/v\d+(\.\d+){0,2}/g): the number of matches, left to right,
\* none overlapping (0 stands for null)
RECURSIVE VersionMatches(_, _)
VersionMatches(s, i) ==
    IF i > Len(s) THEN 0
    ELSE IF VersionAt(s, i) THEN 1 + VersionMatches(s, VersionEnd(s, i) + 1)
         ELSE VersionMatches(s, i + 1)

\* modelVersionStr !== null && modelVersionStr.length === 1
isLegacyModelVersionScheme(relative) == VersionMatches(relative, 1) = 1

\* a numeric identifier of a version: digits, no leading zero
NumericId(p) ==
    /\ Len(p) >= 1
    /\ \A i \in 1..Len(p) : p[i] \in Digits
    /\ (Len(p) = 1 \/ p[1] # "0")

\* semver.valid(s) is not null: v? major.minor.patch (the names of the model
\* hold no "-" and no "+", so no prerelease and no build part)
SemverValid(s) ==
    \E parts \in {SplitOn(IF Len(s) >= 1 /\ s[1] = "v" THEN Tail(s) ELSE s, ".")} :
        Len(parts) = 3 /\ \A i \in 1..3 : NumericId(parts[i])

\* s.slice(0, -n)
DropLast(s, n) == IF Len(s) <= n THEN <<>> ELSE SubSeq(s, 1, Len(s) - n)

\* name.split("@").pop()
AfterLastAt(name) == LET parts == SplitOn(name, "@") IN parts[Len(parts)]

DefaultModelVersion == <<"0", ".", "1", ".", "0">>

\* lines 291-293: the published version of a registered name
modelVersion(name) ==
    LET semverStr == DropLast(AfterLastAt(name), 4)
    IN  IF SemverValid(semverStr) THEN semverStr ELSE DefaultModelVersion

-----------------------------------------------------------------------------
(* The build does not run while a single function is applied. *)

NoCall == [done |-> FALSE]

\* the index page before line 353: not rendered, no write issued
NoIndex == [done |-> FALSE, renders |-> 0, writes |-> 0]

MainIdle ==
    /\ limits = [gens |-> 0, units |-> 0, names |-> <<>>, lib |-> ""]
    /\ files = <<>>
    /\ filter = <<>>
    /\ forcePublish = FALSE
    /\ pc = "idle"
    /\ fileIdx = 0
    /\ cur = <<>>
    /\ gen = <<>>
    /\ disk = {}
    /\ pending = {}
    /\ log = {}
    /\ modelFileIndex = <<>>
    /\ status = <<>>
    /\ indexPage = NoIndex

-----------------------------------------------------------------------------
(* SpecResolve: findCompatibleVersion applied to one registry and one text *)

InitResolve ==
    /\ fn = "findCompatibleVersion"
    /\ arg \in [concertoVersions : Registries, modelText : Texts]
    /\ ret = NoCall
    /\ MainIdle

CallResolve ==
    /\ fn = "findCompatibleVersion"
    /\ ~ret.done
    /\ ret' = [done |-> TRUE,
               value |-> findCompatibleVersion(arg.concertoVersions, arg.modelText),
               versionRange |-> VersionRangeOf(arg.modelText)]
    /\ UNCHANGED <<fn, arg>>
    /\ UNCHANGED mainVars

SpecResolve == InitResolve /\ [][CallResolve]_vars

Resolved == fn = "findCompatibleVersion" /\ ret.done

\* The claims' own reading of a text, written from the claims' words.
IsDeclarationLine(line) ==
    Len(line) >= 3 /\ line[1] = CV /\ line[2] = DQ /\ line[Len(line)] = DQ

IsRequiresComment(line) ==
    /\ Len(line) >= 1 /\ line[1] = SL
    /\ \E i \in 2..Len(line) : line[i] = RQ /\ \E j \in (i+1)..Len(line) : line[j] = CC

\* the X of the first declaration line  concerto version "X"
DeclaredRange(text) ==
    LET i == CHOOSE k \in 1..Len(text) :
                 IsDeclarationLine(text[k]) /\ \A j \in 1..(k-1) : ~IsDeclarationLine(text[j])
    IN  SubSeq(text[i], 3, Len(text[i]) - 1)

HasDeclaration(text) == \E i \in 1..Len(text) : IsDeclarationLine(text[i])
HasComment(text)     == \E i \in 1..Len(text) : IsRequiresComment(text[i])

DefaultBinding(reg) == Binding(reg.defaultVersion)

\* the first registry entry, in registry order, whose version satisfies range x;
\* the default binding when there is none
FirstSatisfying(reg, x) ==
    LET e    == reg.entries
        hits == {i \in 1..Len(e) : Satisfies(e[i].version, x)}
    IN  IF hits = {} THEN DefaultBinding(reg)
        ELSE e[CHOOSE i \in hits : \A j \in hits : i <= j].concerto

\* C1: for a text with a declaration line  concerto version "X"  (X not empty)
\* the resolver returns the first registry entry, in registry order, whose
\* version satisfies range X, and the default binding when none does or X is
\* no valid range.
C1_FirstSatisfyingDeclaredRange ==
    (/\ Resolved
     /\ HasDeclaration(arg.modelText)
     /\ DeclaredRange(arg.modelText) # <<>>) =>
        ret.value = FirstSatisfying(arg.concertoVersions, DeclaredRange(arg.modelText))

\* C2: a text with neither a declaration line nor a requires comment resolves
\* to exactly the configured default binding, whatever else the registry holds.
C2_NoDirectiveGivesDefault ==
    (Resolved /\ ~HasDeclaration(arg.modelText) /\ ~HasComment(arg.modelText)) =>
        ret.value = DefaultBinding(arg.concertoVersions)

\* C2 witness: registry {2.0.0, 3.0.0} with default 3.0.0, a text of two lines
\* without a directive, resolved to the 3.0.0 binding.
C2_Witness ==
    /\ Resolved
    /\ arg.concertoVersions = Registry(<<"2.0.0", "3.0.0">>, "3.0.0")
    /\ Len(arg.modelText) = 2
    /\ ~HasDeclaration(arg.modelText) /\ ~HasComment(arg.modelText)
    /\ ret.value.concertoVersion = "3.0.0"

-----------------------------------------------------------------------------
(* The build: the inputs of a run *)

\* the registry the build loads
concertoVersions == Registry(<<"0.82.11", "1.0.0", "3.0.0", "3.1.0">>, "3.0.0")

TextPlain   == << <<"namespace">> >>
TextLegacy  == << <<SL, SP, RQ, SP, CC, "0.82">>, <<"namespace">> >>
TextOne     == << <<CV, DQ, "1.0.0", DQ>>, <<"namespace">> >>
TextCurrent == << <<CV, DQ, ">=", "3.1.0", DQ>>, <<"namespace">> >>

\* namespaces, in the order localeCompare gives them
Namespaces == <<"a.model", "m.model", "z.model">>

SourceFile(dir, base, text, ns) ==
    [path |-> rootDir \o dir \o <<"/">> \o base, text |-> text, ns |-> ns]

\* the files of a single-file run
SourceFiles ==
    { SourceFile(<<"/", "a">>, <<"m", "@", "1", ".", "2", ".", "3", ".", "c", "t", "o">>, TextPlain, "a.model"),
      SourceFile(<<"/", "a">>, <<"m", ".", "c", "t", "o">>, TextLegacy, "a.model"),
      SourceFile(<<"/", "a">>, <<"n", "@", "2", ".", "0", ".", "1", ".", "c", "t", "o">>, TextOne, "a.model"),
      SourceFile(<<"/", "v", "1">>, <<"m", ".", "c", "t", "o">>, TextPlain, "a.model"),
      SourceFile(<<"/", "v", "1", ".", "0">>, <<"m", "@", "1", ".", "2", ".", "3", ".", "c", "t", "o">>, TextLegacy, "a.model"),
      SourceFile(<<"/", "v", "1", "/", "v", "2", ".", "0">>, <<"m", "@", "1", ".", "2", ".", "3", ".", "c", "t", "o">>, TextCurrent, "a.model"),
      SourceFile(<<"/", "d", "v", "1">>, <<"m", ".", "c", "t", "o">>, TextCurrent, "a.model"),
      SourceFile(<<"/", "v", "1", "/", "d", "v", "2">>, <<"m", "@", "1", ".", "2", ".", "3", ".", "c", "t", "o">>, TextPlain, "a.model"),
      SourceFile(<<>>, <<"m", "@", "1", ".", "2", ".", "3", ".", "j", "s", "o", "n">>, TextPlain, "a.model") }

\* the files of a whole run
RunFiles ==
    { SourceFile(<<"/", "a">>, <<"m", "@", "1", ".", "2", ".", "3", ".", "c", "t", "o">>, TextPlain, "z.model"),
      SourceFile(<<"/", "a">>, <<"n", ".", "c", "t", "o">>, TextLegacy, "a.model"),
      SourceFile(<<"/", "b">>, <<"m", ".", "c", "t", "o">>, TextCurrent, "a.model"),
      SourceFile(<<"/", "v", "1">>, <<"m", ".", "c", "t", "o">>, TextPlain, "m.model") }

\* getFiles(rootDir): distinct paths
FileLists ==
    {l \in UNION {[1..n -> RunFiles] : n \in 0..MaxFiles} :
        \A i \in 1..Len(l) : \A j \in 1..Len(l) : i # j => l[i] # l[j]}

\* process.argv[2]: undefined, or a word
Filters == { <<>>, <<"v", "1">> }

\* What lines 249-293 compute from a file alone, tabulated over the files of
\* the runs: the filter test, the resolved binding, the destination directory,
\* the scheme and the version.
AllFiles == SourceFiles \cup RunFiles

matchesOf      == [f \in AllFiles |-> [flt \in Filters |-> MatchesFilter(f.path, flt)]]
thisConcertoOf == [f \in AllFiles |-> findCompatibleVersion(concertoVersions, f.text)]
destPathOf     == [f \in AllFiles |-> Dirname(DestOf(f.path))]
isLegacyOf     == [f \in AllFiles |-> isLegacyModelVersionScheme(RelativeOf(destPathOf[f]))]
modelVersionOf == [f \in AllFiles |-> modelVersion(f.path)]

-----------------------------------------------------------------------------
(* The build: state *)

NoBinding   == [concertoVersion |-> "", CodeGen |-> {}]
NoContainer == [strict |-> FALSE, models |-> {}]

\* the locals of one iteration of the loop
NoCur ==
    [thisConcerto |-> NoBinding,      \* findCompatibleVersion's result
     modelManager |-> NoContainer,    \* the container
     compiledIn   |-> NoContainer,    \* the container the ModelFile was built in
     destPath     |-> <<>>,           \* the directory of the destination
     isLegacy     |-> FALSE,          \* isLegacyModelVersionScheme
     modelVersion |-> <<>>,
     external     |-> 0,              \* the calls of updateExternalModels
     umlURL       |-> "",
     n            |-> 0,              \* the loop index over CODE_GENERATORS (from 1)
     calls        |-> <<>>]           \* the generate calls that have returned

\* the locals of one generate call; zip holds the names zip.addFile was
\* called with, in the order of the calls
NoGen == [visitor |-> "", ext |-> "", zip |-> <<>>, result |-> "none"]

\* a generate call that has returned: the visitor, how the call went (absent,
\* done, threw) and the units it closed
Call(g, result) ==
    [visitor |-> g.visitor, ext |-> g.ext, result |-> result, units |-> Len(g.zip),
     zip |-> g.zip]

Output(i, kind, ext, entries) ==
    [file |-> i, kind |-> kind, ext |-> ext, entries |-> entries]

LogLine(kind, file, message) == [kind |-> kind, file |-> file, message |-> message]

Terminal == {"SUCCESS", "SKIPPED", "FAILED"}

file == files[fileIdx]

\* the main function is entered (line 229): nothing has run yet
InitMain ==
    /\ fn = "main"
    /\ arg = <<>>
    /\ ret = NoCall
    /\ filter \in Filters
    /\ forcePublish \in BOOLEAN
    /\ pc = "start"
    /\ fileIdx = 0
    /\ cur = NoCur
    /\ gen = NoGen
    /\ disk = {}
    /\ pending = {}
    /\ log = {}
    /\ modelFileIndex = <<>>
    /\ status = <<>>
    /\ indexPage = NoIndex

\* The names a visitor gives the units it closes, in the order it closes
\* them (fileWriter.openFile is called by the visitor, line 148); a name is a
\* number, and the order of the numbers is the order of the names.  The
\* orders tried: falling names, and the same name again and again.
UnitOrders ==
    { [i \in 1..MaxUnits |-> MaxUnits + 1 - i],
      [i \in 1..MaxUnits |-> 1] }

\* What zip.addFile and zip.writeZip (lines 143-144) make of the calls is
\* decided in the archive library, which build.js only calls and a run has
\* one of.  Two things are the library's: whether a second addFile under a
\* name already in the zip adds a second entry or updates the first, and
\* whether writeZip writes the entries in the order they were added or in the
\* order of their names.  "asAdded" adds and keeps the order, "byName"
\* updates and orders; with falling names only the order shows, with one
\* name only the update, so the two cover the four combinations.
Libraries == {"asAdded", "byName"}

\* a whole run: up to MaxFiles files, one generator closing at most one unit
Init ==
    /\ InitMain
    /\ limits \in {[gens |-> 1, units |-> 1, names |-> <<1>>, lib |-> "asAdded"]}
    /\ files \in FileLists

\* one file, MaxGens generators closing up to MaxUnits units each
InitFile ==
    /\ InitMain
    /\ limits \in {[gens |-> MaxGens, units |-> MaxUnits, names |-> o, lib |-> l] :
                        o \in UnitOrders, l \in Libraries}
    /\ files \in {<<f>> : f \in SourceFiles}

-----------------------------------------------------------------------------
(* The build: the loop of the main function *)

fixed == <<fn, arg, ret, limits, files, filter, forcePublish>>

\* a loop body without its catch: the error ends the main function
ThrowEndsRun(message) ==
    /\ log' = log \cup {LogLine("error", file.path, message)}
    /\ status' = [status EXCEPT ![fileIdx] = "FAILED"]
    /\ pc' = "rejected"
    /\ UNCHANGED <<fileIdx, cur, gen, disk, pending, modelFileIndex, indexPage>>

\* the catch of the loop body (lines 343-347): the error is logged with the
\* file and its message, and the loop goes on
Throw(message) ==
    /\ log' = log \cup {LogLine("error", file.path, message)}
    /\ status' = [status EXCEPT ![fileIdx] = "FAILED"]
    /\ pc' = "loop"
    /\ UNCHANGED <<fileIdx, cur, gen, disk, pending, modelFileIndex, indexPage>>

\* lines 232-246, before the loop and outside every try: the build directory
\* is removed, the five static assets are copied and the source tree is
\* listed, each awaited in turn.  When all of them return the loop is
\* entered; when one of them throws or rejects (a missing assets directory,
\* styles.css, fonts.css, _headers or _redirects, an unreadable source tree)
\* the main function rejects there: no file is processed, no index rendered.
Preamble ==
    /\ pc = "start"
    /\ pc' \in {"loop", "rejected"}
    /\ UNCHANGED <<fileIdx, cur, gen, disk, pending, log, modelFileIndex, status, indexPage>>
    /\ UNCHANGED fixed

\* lines 247-251: the next file of the list; one the filter rejects is passed
\* over.  disk and log follow the file at hand: what earlier files left there
\* is never read again.
NextFile ==
    /\ pc = "loop"
    /\ fileIdx < Len(files)
    /\ fileIdx' = fileIdx + 1
    /\ cur' = NoCur
    /\ gen' = NoGen
    /\ disk' = {}
    /\ log' = {}
    /\ IF matchesOf[files[fileIdx + 1]][filter]
       THEN status' = Append(status, "RUNNING") /\ pc' = "read"
       ELSE status' = Append(status, "FILTERED") /\ pc' = "loop"
    /\ UNCHANGED <<pending, modelFileIndex, indexPage>>
    /\ UNCHANGED fixed

\* lines 253-254
ReadAndResolve ==
    /\ pc = "read"
    /\ \/ /\ cur' = [cur EXCEPT !.thisConcerto =
                        thisConcertoOf[file]]
          /\ pc' = "container"
          /\ UNCHANGED <<fileIdx, gen, disk, pending, log, modelFileIndex, status, indexPage>>
       \/ Throw("read")
    /\ UNCHANGED fixed

\* a container that is strict only below 3.0.0
ContainerStrictBelow(thisConcerto) ==
    LET plain  == [strict |-> FALSE, models |-> {}]
        loaded == IF Satisfies(thisConcerto.concertoVersion, <<"0.82.x">>)
                  THEN [plain EXCEPT !.models = {"base.cto"}]
                  ELSE plain
    IN  IF VLess(VersionParts(thisConcerto.concertoVersion), VersionParts("3.0.0"))
        THEN [strict |-> TRUE, models |-> {}]
        ELSE loaded

\* lines 255-263: the container, the system model of the 0.82 line, and the
\* strict container at or below 3.0.0
Container(thisConcerto) ==
    LET plain  == [strict |-> FALSE, models |-> {}]
        loaded == IF Satisfies(thisConcerto.concertoVersion, <<"0.82.x">>)
                  THEN [plain EXCEPT !.models = {"base.cto"}]
                  ELSE plain
    IN  IF Lte(thisConcerto.concertoVersion, "3.0.0")
        THEN [strict |-> TRUE, models |-> {}]
        ELSE loaded

BuildContainer ==
    /\ pc = "container"
    /\ \/ /\ cur' = [cur EXCEPT !.modelManager = Container(cur.thisConcerto)]
          /\ pc' = "compile"
          /\ UNCHANGED <<fileIdx, gen, disk, pending, log, modelFileIndex, status, indexPage>>
       \/ /\ Satisfies(cur.thisConcerto.concertoVersion, <<"0.82.x">>)
          /\ Throw("system model")
    /\ UNCHANGED fixed

\* a loop body that copies the source before it compiles it
CompileAfterCopy ==
    /\ pc = "compile"
    /\ disk' = disk \cup {Output(fileIdx, "cto", "", <<>>)}
    /\ \/ /\ cur' = [cur EXCEPT !.compiledIn = cur.modelManager]
          /\ log' = log \cup {LogLine("processing", file.path, file.ns)}
          /\ pc' = "ensureDir"
          /\ UNCHANGED status
       \/ /\ log' = log \cup {LogLine("error", file.path, "compile")}
          /\ status' = [status EXCEPT ![fileIdx] = "FAILED"]
          /\ pc' = "loop"
          /\ UNCHANGED cur
    /\ UNCHANGED <<fileIdx, gen, pending, modelFileIndex, indexPage>>
    /\ UNCHANGED fixed

\* lines 265-274
Compile ==
    /\ pc = "compile"
    /\ \/ /\ cur' = [cur EXCEPT !.compiledIn = cur.modelManager]
          /\ log' = log \cup {LogLine("processing", file.path, file.ns)}
          /\ pc' = "ensureDir"
          /\ UNCHANGED <<fileIdx, gen, disk, pending, modelFileIndex, status, indexPage>>
       \/ Throw("compile")
    /\ UNCHANGED fixed

\* lines 277-293: the destination directory, the scheme and the version
EnsureDirAndClassify ==
    /\ pc = "ensureDir"
    /\ \/ /\ cur' = [cur EXCEPT
                          !.destPath = destPathOf[file],
                          !.isLegacy = isLegacyOf[file],
                          !.modelVersion = IF isLegacyOf[file] THEN <<>> ELSE modelVersionOf[file]]
          /\ pc' = IF isLegacyOf[file] THEN "copyLegacy" ELSE "register"
          /\ UNCHANGED <<fileIdx, gen, disk, pending, log, modelFileIndex, status, indexPage>>
       \/ Throw("ensureDir")
    /\ UNCHANGED fixed

\* a registration that calls updateExternalModels whatever FORCE_PUBLISH is
RegisterIgnoresFlag ==
    /\ pc = "register"
    /\ \/ /\ cur' = [cur EXCEPT !.modelManager.models = @ \cup {file.path},
                                !.external = @ + 1]
          /\ pc' = "external"
          /\ UNCHANGED <<fileIdx, gen, disk, pending, log, modelFileIndex, status, indexPage>>
       \/ Throw("addModelFile")
    /\ UNCHANGED fixed

\* lines 295-305: the model is added to the container and, unless FORCE_PUBLISH
\* is set, updateExternalModels is called
Register ==
    /\ pc = "register"
    /\ \/ /\ cur' = [cur EXCEPT !.modelManager.models = @ \cup {file.path},
                                !.external = IF forcePublish THEN @ ELSE @ + 1]
          /\ pc' = IF forcePublish THEN "diagram" ELSE "external"
          /\ UNCHANGED <<fileIdx, gen, disk, pending, log, modelFileIndex, status, indexPage>>
       \/ Throw("addModelFile")
    /\ UNCHANGED fixed

\* line 305: the awaited call returns, or it rejects, or it never settles.
\* The call fetches the external models over the network and the code sets
\* no timeout: when it never settles the main function stays suspended at
\* line 305 for good ("hung"), with no later step and no later file.
updateExternalModels ==
    /\ pc = "external"
    /\ \/ /\ pc' \in {"diagram", "hung"}
          /\ UNCHANGED <<fileIdx, cur, gen, disk, pending, log, modelFileIndex, status, indexPage>>
       \/ Throw("updateExternalModels")
    /\ UNCHANGED fixed

\* a diagram step without its catch: the error reaches the loop
generatePlantUMLPropagates ==
    /\ pc = "diagram"
    /\ \/ /\ "PlantUMLVisitor" \in cur.thisConcerto.CodeGen
          /\ disk' = disk \cup {Output(fileIdx, "puml", "", <<>>)}
          /\ cur' = [cur EXCEPT !.umlURL = "url"]
          /\ pc' = "ast"
          /\ UNCHANGED <<fileIdx, gen, pending, log, modelFileIndex, status, indexPage>>
       \/ Throw("plantuml")
    /\ UNCHANGED fixed

\* generatePlantUML, lines 160-180: the .puml file and its URL, or a logged
\* error and no result.  The try covers the whole body: an error up to
\* closeFile (line 171) leaves no .puml file, an error in reading the file
\* back or in encoding it (lines 173-174) comes after the file was written.
generatePlantUML ==
    /\ pc = "diagram"
    /\ pc' = "ast"
    /\ \/ /\ "PlantUMLVisitor" \in cur.thisConcerto.CodeGen
          /\ disk' = disk \cup {Output(fileIdx, "puml", "", <<>>)}
          /\ cur' = [cur EXCEPT !.umlURL = "url"]
          /\ UNCHANGED log
       \/ /\ log' = log \cup {LogLine("plantuml", cur.destPath, "error")}
          /\ cur' = [cur EXCEPT !.umlURL = "undefined"]
          /\ UNCHANGED disk
       \/ /\ "PlantUMLVisitor" \in cur.thisConcerto.CodeGen
          /\ disk' = disk \cup {Output(fileIdx, "puml", "", <<>>)}
          /\ log' = log \cup {LogLine("plantuml", cur.destPath, "error")}
          /\ cur' = [cur EXCEPT !.umlURL = "undefined"]
    /\ UNCHANGED <<fileIdx, gen, pending, modelFileIndex, status, indexPage>>
    /\ UNCHANGED fixed

\* generateJsonAst, lines 182-201: the write is issued with a callback, or an
\* error is logged
generateJsonAst ==
    /\ pc = "ast"
    /\ pc' = "generate"
    /\ cur' = [cur EXCEPT !.n = 1]
    /\ \/ /\ pending' = pending \cup {Output(fileIdx, "ast.json", "", <<>>)}
          /\ UNCHANGED log
       \/ /\ log' = log \cup {LogLine("ast", cur.destPath, "error")}
          /\ UNCHANGED pending
    /\ UNCHANGED <<fileIdx, gen, disk, modelFileIndex, status, indexPage>>
    /\ UNCHANGED fixed

-----------------------------------------------------------------------------
(* generate, lines 123-158 *)

\* the loop of lines 311-314 after one call: the next generator, or the copy
AfterGenerate(n) == IF n + 1 > limits.gens THEN "copy" ELSE "generate"

\* a lookup without the test of line 127: new ctor() throws for a visitor the
\* binding does not have, and the catch logs it
GenerateLookupNoGuard ==
    /\ pc = "generate"
    /\ LET g == CODE_GENERATORS[cur.n]
           c == [visitor |-> g.visitor, ext |-> g.ext, zip |-> <<>>, result |-> "running"]
       IN  IF g.visitor \in cur.thisConcerto.CodeGen
           THEN /\ gen' = c
                /\ pc' = "accept"
                /\ UNCHANGED <<cur, log>>
           ELSE /\ gen' = [c EXCEPT !.result = "threw"]
                /\ log' = log \cup {LogLine("generate", cur.destPath, g.visitor)}
                /\ cur' = [cur EXCEPT !.calls = Append(@, Call(c, "threw")), !.n = @ + 1]
                /\ pc' = AfterGenerate(cur.n)
    /\ UNCHANGED <<fileIdx, disk, pending, modelFileIndex, status, indexPage>>
    /\ UNCHANGED fixed

\* lines 126-131 and 151-153: the visitor is looked up in the binding; one the
\* binding does not have is passed over
GenerateLookup ==
    /\ pc = "generate"
    /\ LET g == CODE_GENERATORS[cur.n]
           c == [visitor |-> g.visitor, ext |-> g.ext, zip |-> <<>>, result |-> "running"]
       IN  IF g.visitor \in cur.thisConcerto.CodeGen
           THEN /\ gen' = c
                /\ pc' = "accept"
                /\ UNCHANGED cur
           ELSE /\ gen' = [c EXCEPT !.result = "absent"]
                /\ cur' = [cur EXCEPT !.calls = Append(@, Call(c, "absent")), !.n = @ + 1]
                /\ pc' = AfterGenerate(cur.n)
    /\ UNCHANGED <<fileIdx, disk, pending, log, modelFileIndex, status, indexPage>>
    /\ UNCHANGED fixed

\* the calls with a repeated name dropped: the entry of its first call stays
FirstOccurrences(calls) ==
    LET first == SelectSeq([i \in 1..Len(calls) |-> i],
                           LAMBDA i : \A j \in 1..(i - 1) : calls[j] # calls[i])
    IN  [k \in 1..Len(first) |-> calls[first[k]]]

\* the entries in the order of their names, equal names in the order added
SortByName(entries) ==
    LET n       == Len(entries)
        rank(i) == Cardinality({j \in 1..n : \/ entries[j] < entries[i]
                                             \/ entries[j] = entries[i] /\ j <= i})
    IN  [k \in 1..n |-> entries[CHOOSE i \in 1..n : rank(i) = k]]

\* the entry list writeZip writes after these addFile calls
Archive(lib, calls) ==
    IF lib = "byName" THEN SortByName(FirstOccurrences(calls)) ELSE calls

\* zip.writeZip(target): the archive at the target is replaced by the one
\* written now
WriteZip(d, i, ext, written) ==
    {o \in d : ~(o.file = i /\ o.kind = "zip" /\ o.ext = ext)}
        \cup {Output(i, "zip", ext, written)}

\* a closeFile that adds the unit and leaves the writing of the zip for later
closeFileNoWrite ==
    /\ pc = "accept"
    /\ Len(gen.zip) < limits.units
    /\ gen' = [gen EXCEPT !.zip = Append(gen.zip, limits.names[Len(gen.zip) + 1])]
    /\ UNCHANGED <<fileIdx, pc, cur, disk, pending, log, modelFileIndex, status, indexPage>>
    /\ UNCHANGED fixed

\* the overridden closeFile, lines 134-147: the unit is added to the zip
\* under its name and the zip is written to its target
closeFile ==
    /\ pc = "accept"
    /\ Len(gen.zip) < limits.units
    /\ LET zip == Append(gen.zip, limits.names[Len(gen.zip) + 1])
       IN  /\ gen' = [gen EXCEPT !.zip = zip]
           /\ disk' = WriteZip(disk, fileIdx, gen.ext, Archive(limits.lib, zip))
    /\ UNCHANGED <<fileIdx, pc, cur, pending, log, modelFileIndex, status, indexPage>>
    /\ UNCHANGED fixed

\* modelManager.accept returns
AcceptReturns ==
    /\ pc = "accept"
    /\ gen' = [gen EXCEPT !.result = "done"]
    /\ cur' = [cur EXCEPT !.calls = Append(@, Call(gen, "done")), !.n = @ + 1]
    /\ pc' = AfterGenerate(cur.n)
    /\ UNCHANGED <<fileIdx, disk, pending, log, modelFileIndex, status, indexPage>>
    /\ UNCHANGED fixed

\* a generate without its catch: what the traversal throws reaches the loop
AcceptThrowsPropagates ==
    /\ pc = "accept"
    /\ Throw(gen.visitor)
    /\ UNCHANGED fixed

\* lines 155-157: what the traversal throws is logged and goes no further
AcceptThrows ==
    /\ pc = "accept"
    /\ gen' = [gen EXCEPT !.result = "threw"]
    /\ log' = log \cup {LogLine("generate", cur.destPath, gen.visitor)}
    /\ cur' = [cur EXCEPT !.calls = Append(@, Call(gen, "threw")), !.n = @ + 1]
    /\ pc' = AfterGenerate(cur.n)
    /\ UNCHANGED <<fileIdx, disk, pending, modelFileIndex, status, indexPage>>
    /\ UNCHANGED fixed

-----------------------------------------------------------------------------
(* The build: copy, page, index *)

\* line 317
CopySource ==
    /\ pc = "copy"
    /\ \/ /\ disk' = disk \cup {Output(fileIdx, "cto", "", <<>>)}
          /\ pc' = "render"
          /\ UNCHANGED <<fileIdx, cur, gen, pending, log, modelFileIndex, status, indexPage>>
       \/ Throw("copy")
    /\ UNCHANGED fixed

IndexEntry(i) ==
    [htmlFile |-> i, modelFile |-> files[i], modelVersion |-> cur.modelVersion]

\* a page step that pushes the entry before it renders the page
RenderPagePushesFirst ==
    /\ pc = "render"
    /\ modelFileIndex' = Append(modelFileIndex, IndexEntry(fileIdx))
    /\ \/ /\ log' = log \cup {LogLine("processed", file.path, file.ns)}
          /\ pending' = pending \cup {Output(fileIdx, "html", "", <<>>)}
          /\ status' = [status EXCEPT ![fileIdx] = "SUCCESS"]
       \/ /\ log' = log \cup {LogLine("error", file.path, "render")}
          /\ status' = [status EXCEPT ![fileIdx] = "FAILED"]
          /\ UNCHANGED pending
    /\ pc' = "loop"
    /\ UNCHANGED <<fileIdx, cur, gen, disk, indexPage>>
    /\ UNCHANGED fixed

\* a page step that also writes the index as it stands, file by file
RenderPageWritesIndex ==
    /\ pc = "render"
    /\ \/ /\ modelFileIndex' = Append(modelFileIndex, IndexEntry(fileIdx))
          /\ log' = log \cup {LogLine("processed", file.path, file.ns)}
          /\ pending' = pending \cup {Output(fileIdx, "html", "", <<>>),
                                      Output(0, "index.html", "", <<>>)}
          /\ indexPage' = [indexPage EXCEPT !.renders = @ + 1, !.writes = @ + 1]
          /\ status' = [status EXCEPT ![fileIdx] = "SUCCESS"]
          /\ pc' = "loop"
          /\ UNCHANGED <<fileIdx, cur, gen, disk>>
       \/ Throw("render")
    /\ UNCHANGED fixed

\* lines 320-338: the page is rendered, the entry pushed, the page write issued
RenderPage ==
    /\ pc = "render"
    /\ \/ /\ modelFileIndex' = Append(modelFileIndex, IndexEntry(fileIdx))
          /\ log' = log \cup {LogLine("processed", file.path, file.ns)}
          /\ pending' = pending \cup {Output(fileIdx, "html", "", <<>>)}
          /\ status' = [status EXCEPT ![fileIdx] = "SUCCESS"]
          /\ pc' = "loop"
          /\ UNCHANGED <<fileIdx, cur, gen, disk, indexPage>>
       \/ Throw("render")
    /\ UNCHANGED fixed

\* lines 339-342
CopyLegacy ==
    /\ pc = "copyLegacy"
    /\ \/ /\ disk' = disk \cup {Output(fileIdx, "cto", "", <<>>)}
          /\ status' = [status EXCEPT ![fileIdx] = "SKIPPED"]
          /\ pc' = "loop"
          /\ UNCHANGED <<fileIdx, cur, gen, pending, log, modelFileIndex, indexPage>>
       \/ Throw("copy")
    /\ UNCHANGED fixed

\* the end of the for loop: the iterator is past the last file and the locals
\* of the last iteration are gone
LoopEnds ==
    /\ pc = "loop"
    /\ fileIdx = Len(files)
    /\ fileIdx' = fileIdx + 1
    /\ pc' = "assemble"
    /\ cur' = NoCur
    /\ gen' = NoGen
    /\ disk' = {}
    /\ log' = {}
    /\ UNCHANGED <<pending, modelFileIndex, status, indexPage>>
    /\ UNCHANGED fixed

NsRank(ns) == CHOOSE i \in 1..Len(Namespaces) : Namespaces[i] = ns

\* a.modelFile.getNamespace().localeCompare(b.modelFile.getNamespace()) <= 0
NsLeq(a, b) == NsRank(a.modelFile.ns) <= NsRank(b.modelFile.ns)

\* e put into the sorted list l after the entries that are not above it
InsertSorted(l, e) ==
    LET k == Cardinality({i \in 1..Len(l) : NsLeq(l[i], e)})
    IN  SubSeq(l, 1, k) \o <<e>> \o SubSeq(l, k + 1, Len(l))

\* an index left in the order the entries were pushed
SortByNamespaceNoSort(index) == index

\* Array.prototype.sort with the namespace comparator (line 351): stable
RECURSIVE SortByNamespace(_)
SortByNamespace(index) ==
    IF index = <<>> THEN <<>>
    ELSE InsertSorted(SortByNamespace(SubSeq(index, 1, Len(index) - 1)),
                      index[Len(index)])

\* lines 351-358: the index is sorted and rendered, its write issued; a render
\* that throws ends the main function
Assemble ==
    /\ pc = "assemble"
    /\ modelFileIndex' = SortByNamespace(modelFileIndex)
    /\ \/ /\ indexPage' = [done |-> TRUE, renders |-> indexPage.renders + 1,
                            writes |-> indexPage.writes + 1,
                            modelFileIndex |-> modelFileIndex']
          /\ pending' = pending \cup {Output(0, "index.html", "", <<>>)}
          /\ pc' = "done"
       \/ /\ pc' = "rejected"
          /\ UNCHANGED <<indexPage, pending>>
    /\ UNCHANGED <<fileIdx, cur, gen, disk, log, status>>
    /\ UNCHANGED fixed

\* where the main function waits for the file system (or has returned, or has
\* rejected with the process still alive): only there does the event loop run
\* the callback of a finished write
Suspended == {"ensureDir", "external", "hung", "copy", "copyLegacy", "done", "rejected"}

\* a write issued with a callback completes: the file is there, or the
\* callback logs the error
WriteCompletes ==
    \E w \in pending :
        /\ pc \in Suspended
        /\ pending' = pending \ {w}
        /\ \/ /\ disk' = IF w.file \in {0, fileIdx} THEN disk \cup {w} ELSE disk
              /\ UNCHANGED log
           \/ /\ log' = log \cup {LogLine("write", <<>>, w.kind)}
              /\ UNCHANGED disk
        /\ UNCHANGED <<fileIdx, pc, cur, gen, modelFileIndex, status, indexPage>>
        /\ UNCHANGED fixed

\* the rejection of the main function is handled nowhere (line 360 calls the
\* function and drops its promise): the runtime may end the process on it, at
\* once.  The writes still in pending then never complete and their callbacks
\* never run; what such a write leaves is not an output (at most an empty
\* file).  A runtime that only warns keeps completing writes (WriteCompletes)
\* before the process ends.
ProcessExits ==
    /\ pc = "rejected"
    /\ pc' = "exited"
    /\ UNCHANGED <<fileIdx, cur, gen, disk, pending, log, modelFileIndex, status, indexPage>>
    /\ UNCHANGED fixed

Next ==
    \/ Preamble
    \/ NextFile
    \/ ReadAndResolve
    \/ BuildContainer
    \/ Compile
    \/ EnsureDirAndClassify
    \/ Register
    \/ updateExternalModels
    \/ generatePlantUML
    \/ generateJsonAst
    \/ GenerateLookup
    \/ closeFile
    \/ AcceptReturns
    \/ AcceptThrows
    \/ CopySource
    \/ RenderPage
    \/ CopyLegacy
    \/ LoopEnds
    \/ Assemble
    \/ WriteCompletes
    \/ ProcessExits

Spec     == Init /\ [][Next]_vars
SpecFile == InitFile /\ [][Next]_vars


\* The run does not stop of itself while a step is left to it: the
\* synchronous steps run on, and the awaited calls on the local file system
\* settle.  Two things are not promised.  The external fetch of line 305 need
\* not settle: its never settling is an outcome of updateExternalModels
\* ("hung"), after which the main function has no step left.  And after a
\* rejection the step left may be the end of the process, so no outstanding
\* write is bound to complete there.
FairSpec == Spec /\ WF_vars(Next)

-----------------------------------------------------------------------------
(* SpecVersion: lines 291-293 applied to one registered name.  The name of *)
(* a ModelFile is the path it was read from.                                *)

NameDirs ==
    { <<>>,
      <<"/", "a">>,
      <<"/", "a", "@", "1", ".", "0", ".", "0">>,
      <<"/", "v", "1">> }

NameBases ==
    { <<"m", "@", "1", ".", "2", ".", "3", ".", "c", "t", "o">>,
      <<"m", ".", "c", "t", "o">>,
      <<"m", "@", "1", ".", "2", ".", "c", "t", "o">>,
      <<"m", "@", "v", "1", ".", "2", ".", "3", ".", "c", "t", "o">>,
      <<"m", "@", "1", ".", "2", ".", "3", ".", "j", "s", "o", "n">>,
      <<"m", "@", "1", ".", "2", ".", "3", ".", "m", "d">>,
      <<"m", "@", "0", "1", ".", "2", ".", "3", ".", "c", "t", "o">>,
      <<"a", "@", "b", "@", "2", ".", "0", ".", "1", ".", "c", "t", "o">>,
      <<"m", "@", "1", ".", "2", ".", "3">>,
      <<"@", "0", ".", "0", ".", "0", ".", "c", "t", "o">>,
      <<"m", "@", "1", ".", "2", ".", "3", ".", "4", ".", "c", "t", "o">>,
      <<"m", "@", "1", "0", ".", "2", "0", ".", "3", "0", ".", "c", "t", "o">>,
      <<"m", "@", ".", "c", "t", "o">>,
      <<"1", ".", "2", ".", "3", ".", "c", "t", "o">> }

RegisteredNames == {rootDir \o d \o <<"/">> \o b : d \in NameDirs, b \in NameBases}

InitVersion ==
    /\ fn = "modelVersion"
    /\ arg \in RegisteredNames
    /\ ret = NoCall
    /\ MainIdle

CallModelVersion ==
    /\ fn = "modelVersion"
    /\ ~ret.done
    /\ ret' = [done |-> TRUE, value |-> modelVersion(arg)]
    /\ UNCHANGED <<fn, arg>>
    /\ UNCHANGED mainVars

SpecVersion == InitVersion /\ [][CallModelVersion]_vars

-----------------------------------------------------------------------------
(* The claims about the build *)

\* the file at hand is one the loop body runs for
AtHand == fileIdx \in 1..Len(files) /\ status[fileIdx] # "FILTERED"

\* the destination directory of the file at hand: Dirname(DestOf(file.path)),
\* read from the table
DestPath == destPathOf[file]

\* a path segment of the form v<digits>[.<digits>[.<digits>]]
IsVersionSegment(seg) ==
    /\ Len(seg) >= 2
    /\ seg[1] = "v"
    /\ LET parts == SplitOn(Tail(seg), ".")
       IN  /\ Len(parts) \in 1..3
           /\ \A i \in 1..Len(parts) :
                  parts[i] # <<>> /\ \A k \in 1..Len(parts[i]) : parts[i][k] \in Digits

\* the number of such segments in a directory
VersionSegments(dir) ==
    LET segs == SplitOn(dir, "/")
    IN  Cardinality({i \in 1..Len(segs) : IsVersionSegment(segs[i])})

\* the steps of the generation and indexing branch
CurrentSchemeSteps ==
    {"register", "external", "diagram", "ast", "generate", "accept", "copy", "render"}

Indexed(i) == \E k \in 1..Len(modelFileIndex) : modelFileIndex[k].htmlFile = i

\* C3: a file whose destination directory has exactly one segment of the form
\* v<digits>[.<digits>[.<digits>]] is handled as legacy: it gets no index entry,
\* no diagram, AST dump, generator or page, and nothing but its copy is written.
C3_OneVersionSegmentIsLegacy ==
    (AtHand /\ VersionSegments(RelativeOf(DestPath)) = 1) =>
        /\ pc \notin CurrentSchemeSteps
        /\ ~Indexed(fileIdx)
        /\ cur.calls = <<>>
        /\ \A o \in disk \cup pending : o.file = fileIdx => o.kind = "cto"

\* C4: a file whose destination directory has no such segment, or two or more,
\* is classified current-scheme and takes the generation and indexing branch.
C4_OtherSegmentCountsAreCurrent ==
    (AtHand /\ VersionSegments(RelativeOf(DestPath)) # 1) =>
        /\ ~cur.isLegacy
        /\ pc # "copyLegacy"
        /\ status[fileIdx] # "SKIPPED"

\* the part of a name after its last @
SuffixAfterAt(name) == SubSeq(name, LastIndexOf(name, "@") + 1, Len(name))

\* a name without its trailing extension
WithoutExtension(s) ==
    IF LastIndexOf(s, ".") = 0 THEN s ELSE SubSeq(s, 1, LastIndexOf(s, ".") - 1)

VersionRan == fn = "modelVersion" /\ ret.done

\* C5: the derived version is the part after the last @ without its
\* extension when that is a valid semantic version, and 0.1.0 otherwise, names
\* without @ included.
C5_VersionIsSuffixWithoutExtension ==
    VersionRan =>
        ret.value =
            IF /\ LastIndexOf(arg, "@") # 0
               /\ SemverValid(WithoutExtension(SuffixAfterAt(arg)))
            THEN WithoutExtension(SuffixAfterAt(arg))
            ELSE <<"0", ".", "1", ".", "0">>

\* the generate call about a visitor the binding of the file does not expose
AbsentCall == AtHand /\ gen.visitor # "" /\ gen.visitor \notin cur.thisConcerto.CodeGen

ArchiveOnDisk(ext) == {o \in disk : o.file = fileIdx /\ o.kind = "zip" /\ o.ext = ext}

GenerateLogged(visitor) == LogLine("generate", DestPath, visitor) \in log

\* the error lines the catch of the loop wrote for the file at hand
LoopErrors == {l \in log : l.kind = "error"}

\* C6: a generate call for a visitor the binding lacks returns without raising,
\* logs nothing and leaves no archive, in memory or on disk; the generators
\* after it still run.
C6_AbsentVisitorIsNoOp ==
    AbsentCall =>
        /\ gen.zip = <<>>
        /\ ArchiveOnDisk(gen.ext) = {}
        /\ ~GenerateLogged(gen.visitor)
        /\ \A l \in LoopErrors : l.message \in {"copy", "render"}
        /\ pc \in {"generate", "copy", "render", "loop"}
        /\ pc = "generate" => cur.n <= limits.gens
        /\ pc \in {"copy", "render"} => Len(cur.calls) = limits.gens

\* C6 witness: the first generator ran, the second was absent from the binding,
\* and the file went on to the copy
C6_Witness ==
    /\ AbsentCall
    /\ pc = "copy"
    /\ Len(cur.calls) = 2
    /\ cur.calls[1].result = "done"
    /\ cur.calls[2].result = "absent"

Threw == {k \in 1..Len(cur.calls) : cur.calls[k].result = "threw"}

\* the units 1..n in the order they were closed
\* a returned call left its archive on disk, with an entry under every name
\* it closed and under no other
ArchiveOfCall(c) ==
    \E o \in disk :
        /\ o.kind = "zip" /\ o.ext = c.ext /\ o.file = fileIdx
        /\ Range(o.entries) = Range(c.zip)

\* C7: when the traversal of a generator throws, generate logs it and raises
\* nothing to the loop: every other generator is still invoked and its archive
\* written, and the file's index entry is appended once copy and render succeed.
C7_GeneratorFailureIsIsolated ==
    /\ AtHand => \A l \in LoopErrors : l.message \notin VisitorNames
    /\ (AtHand /\ Threw # {}) =>
        /\ \A k \in Threw : GenerateLogged(cur.calls[k].visitor)
        /\ \A l \in LoopErrors : l.message \in {"copy", "render"}
        /\ pc \in {"generate", "accept", "copy", "render", "loop"}
        /\ pc \in {"copy", "render", "loop"} =>
               /\ Len(cur.calls) = limits.gens
               /\ \A k \in 1..Len(cur.calls) :
                      cur.calls[k].visitor = CODE_GENERATORS[k].visitor
        /\ \A k \in 1..Len(cur.calls) :
               cur.calls[k].units > 0 => ArchiveOfCall(cur.calls[k])
        /\ (pc = "loop" /\ LoopErrors = {}) =>
               status[fileIdx] = "SUCCESS" /\ Indexed(fileIdx)

\* C7 witness: the first generator threw before closing a unit, the second
\* closed two, and the file was indexed
C7_Witness ==
    /\ AtHand
    /\ status[fileIdx] = "SUCCESS"
    /\ Indexed(fileIdx)
    /\ Len(cur.calls) = 2
    /\ cur.calls[1].result = "threw" /\ cur.calls[1].units = 0
    /\ cur.calls[2].result = "done"
    /\ Output(fileIdx, "zip", cur.calls[2].ext, <<1, 2>>) \in disk

\* the entries of the archive on disk for ext, <<>> when there is none
Persisted(ext) ==
    IF ArchiveOnDisk(ext) = {} THEN <<>>
    ELSE (CHOOSE o \in ArchiveOnDisk(ext) : TRUE).entries

\* the call at hand has closed units or has ended
InCall == AtHand /\ gen.result \in {"running", "done", "threw"}

\* C8 as stated: within a generate call the archive on disk holds, after every
\* close, exactly the units closed so far in the order closed; a generator
\* that throws after k closes leaves exactly those k units.
C8_ArchiveHoldsClosedUnits ==
    InCall =>
        /\ Cardinality(ArchiveOnDisk(gen.ext)) <= 1
        /\ Persisted(gen.ext) = gen.zip

\* C8, amended: within a generate call the archive is written anew at every
\* close, so the one archive on disk has an entry under every name closed so
\* far and under no other name, none before the first close; a generator that
\* throws after k closes leaves the archive of those k closes.  How many
\* entries a repeated name has and in which order the entries stand is the
\* archive library's: the entries need not keep the order of the closes.
C8_ArchiveHoldsClosedNames ==
    InCall =>
        /\ Cardinality(ArchiveOnDisk(gen.ext)) <= 1
        /\ gen.zip = <<>> <=> ArchiveOnDisk(gen.ext) = {}
        /\ Range(Persisted(gen.ext)) = Range(gen.zip)
        /\ Len(Persisted(gen.ext)) <= Len(gen.zip)

\* C8 witness: two units closed, the second under the lesser name, then the
\* throw: the archive holds the two names, in the order of the names
C8_Witness ==
    /\ AtHand
    /\ gen.result = "threw"
    /\ gen.zip = <<2, 1>>
    /\ Persisted(gen.ext) = <<1, 2>>

\* the files whose iteration ended in SUCCESS
Succeeded == {i \in 1..Len(files) : status[i] = "SUCCESS"}

\* C9: the index handed to the index template has exactly one entry for every
\* file processed with success, no other entry, and the entries are in
\* non-decreasing order of namespace.
C9_IndexIsSortedAndComplete ==
    indexPage.done =>
        LET idx == indexPage.modelFileIndex
        IN  /\ {idx[k].htmlFile : k \in 1..Len(idx)} = Succeeded
            /\ Len(idx) = Cardinality(Succeeded)
            /\ \A k \in 1..Len(idx) : idx[k].modelFile = files[idx[k].htmlFile]
            /\ \A k \in 1..(Len(idx) - 1) :
                   NsRank(idx[k].modelFile.ns) <= NsRank(idx[k + 1].modelFile.ns)

\* C9 witness: z.model was processed before a.model and the index lists
\* a.model first
C9_Witness ==
    /\ indexPage.done
    /\ Len(files) = 2
    /\ files[1].ns = "z.model" /\ files[2].ns = "a.model"
    /\ Len(indexPage.modelFileIndex) = 2
    /\ indexPage.modelFileIndex[1].modelFile.ns = "a.model"
    /\ indexPage.modelFileIndex[2].modelFile.ns = "z.model"

\* every file the filter lets through has ended in SUCCESS, SKIPPED or FAILED
AllProcessed ==
    /\ Len(status) = Len(files)
    /\ \A i \in 1..Len(files) :
           MatchesFilter(files[i].path, filter) => status[i] \in Terminal

\* the main function rejected before the loop: no file was taken up
PreambleRejected == pc = "rejected" /\ fileIdx = 0 /\ status = <<>>

\* a failed iteration left its error line, with the file and the message
FailureLogged ==
    (AtHand /\ status[fileIdx] = "FAILED") =>
        /\ pc = "loop"
        /\ \E l \in LoopErrors : l.file = file.path /\ l.message # ""

\* C10 as stated: an error in a step of one file ends that file only and is
\* logged with the file and the message; the loop goes on, so in every run
\* every file the filter lets through ends in SUCCESS, SKIPPED or FAILED and
\* the run reaches the assembly of the site.
C10_EveryFileEndsAndSiteIsAssembled ==
    /\ []FailureLogged
    /\ <>(pc = "assemble" /\ AllProcessed)

\* the external fetch of the file at hand never settled
Hung == pc = "hung"

\* C10, amended: an error in a step of one file ends that file only and is
\* logged with the file and the message, and the loop goes on.  A run comes
\* to the assembly of the site, every file the filter lets through having
\* ended in SUCCESS, SKIPPED or FAILED, unless it never entered the loop, its
\* steps before the loop (lines 232-244) having rejected, or the external
\* fetch of a file (line 305, no timeout) never settles: that blocks the run
\* at that file, which stays unfinished with every later file untouched.
C10_EveryFileEndsUnlessRunIsBlocked ==
    /\ []FailureLogged
    /\ [](Hung => /\ AtHand /\ ~forcePublish
                   /\ status[fileIdx] = "RUNNING"
                   /\ Len(status) = fileIdx)
    /\ <>(PreambleRejected \/ Hung \/ (pc = "assemble" /\ AllProcessed))

\* C10 witness: the first file failed, the second succeeded, and the run is at
\* the assembly of the site
C10_Witness ==
    /\ pc = "assemble"
    /\ status = <<"FAILED", "SUCCESS">>

\* the entries the accumulator holds for the file at position i of the list
EntriesOf(i) == {k \in 1..Len(modelFileIndex) : modelFileIndex[k].htmlFile = i}

\* C11: in every state of a run each entry of the accumulator belongs to one
\* file of the list, no file has two entries, and a file with an entry was
\* classified current-scheme and ended in SUCCESS: a legacy-scheme file, a
\* failed file and a file still being processed have none.
C11_EntriesAreOfCurrentSchemeSuccesses ==
    fn = "main" =>
        /\ \A k \in 1..Len(modelFileIndex) :
               /\ modelFileIndex[k].htmlFile \in 1..Len(files)
               /\ modelFileIndex[k].modelFile = files[modelFileIndex[k].htmlFile]
        /\ \A i \in 1..Len(files) :
               /\ Cardinality(EntriesOf(i)) <= 1
               /\ EntriesOf(i) # {} =>
                      /\ i <= Len(status)
                      /\ status[i] = "SUCCESS"
                      /\ ~isLegacyOf[files[i]]

\* C11 witness: the first file was legacy-scheme and only copied, the second
\* was indexed: one entry, of the second file
C11_Witness ==
    /\ fn = "main"
    /\ Len(files) = 2
    /\ isLegacyOf[files[1]]
    /\ status = <<"SKIPPED", "SUCCESS">>
    /\ Len(modelFileIndex) = 1
    /\ modelFileIndex[1].htmlFile = 2

\* C12: files are processed one after the other with every write awaited in
\* place: while a file is being processed no write issued for an earlier file
\* is still pending.
C12_NoWritePendingInLaterFile ==
    AtHand => \A w \in pending : w.file = fileIdx

\* the file at hand has been compiled: line 273 has logged it
Compiled == AtHand /\ LogLine("processing", file.path, file.ns) \in log

\* the resolved binding is of the 0.82 line
LegacyLine == Satisfies(cur.thisConcerto.concertoVersion, <<"0.82.x">>)

\* C13: when the resolved binding is of the 0.82 line, the container the model
\* was compiled in holds the system model base.cto.
C13_BootstrapInCompileContainer ==
    (Compiled /\ LegacyLine) => "base.cto" \in cur.compiledIn.models

\* the versions of the registry at or below 3.0.0: the 0.82 line, the lines
\* 1 and 2, and 3.0.0 itself
AtOrBelowThreshold(v) == v \in {"0.82.11", "1.0.0", "2.0.0", "3.0.0"}

\* C14: the container a file is compiled in is strict if and only if the
\* version of the resolved binding is at or below 3.0.0.
C14_StrictIffAtOrBelowThreshold ==
    Compiled =>
        (cur.compiledIn.strict <=> AtOrBelowThreshold(cur.thisConcerto.concertoVersion))

\* C14 witness: a file resolved to 3.1.0 was compiled in a container that is
\* not strict
C14_Witness ==
    /\ Compiled
    /\ cur.thisConcerto.concertoVersion = "3.1.0"
    /\ ~cur.compiledIn.strict

\* the first declaration line of a text, as a text of its own
FirstDeclaration(text) ==
    LET i == CHOOSE k \in 1..Len(text) :
                 IsDeclarationLine(text[k]) /\ \A j \in 1..(k-1) : ~IsDeclarationLine(text[j])
    IN  <<text[i]>>

\* C15: a text with a declaration line and a requires comment resolves as its
\* declaration alone does, wherever the two lines stand; the range of the
\* comment is not used.
C15_DeclarationBeforeComment ==
    (Resolved /\ HasDeclaration(arg.modelText) /\ HasComment(arg.modelText)) =>
        /\ ret.value =
               findCompatibleVersion(arg.concertoVersions, FirstDeclaration(arg.modelText))
        /\ ret.versionRange = VersionRangeOf(FirstDeclaration(arg.modelText))

\* C15 witness: the comment asks for 3.1.0 and stands first, the declaration
\* asks for 1.0.0: the 1.0.0 binding is returned, though 3.1.0 is in the registry
C15_Witness ==
    /\ Resolved
    /\ arg.concertoVersions = Registry(<<"3.1.0", "3.0.0", "1.0.0">>, "3.0.0")
    /\ arg.modelText = << <<SL, SP, RQ, SP, CC, "3.1.0">>, <<CV, DQ, "1.0.0", DQ>> >>
    /\ ret.value.concertoVersion = "1.0.0"

\* C16: the range matched against the registry holds no space, however many
\* the range of the directive has.
C16_RangeHasNoSpace ==
    (Resolved /\ ret.versionRange.found) => SP \notin Range(ret.versionRange.range)

\* the steps that come after external-model resolution
AfterExternal == {"diagram", "ast", "generate", "accept", "copy", "render"}

\* what the file at hand has produced, on disk or still to be written
Produced == {o \in disk \cup pending : o.file = fileIdx}

ExternalFailed == LogLine("error", file.path, "updateExternalModels") \in log

\* C17: for a current-scheme file updateExternalModels is called once when
\* FORCE_PUBLISH is unset and never when it is set; the call comes after the
\* model is registered and before the diagram, the AST dump and the generators;
\* its failure is logged with the file and ends the file without an entry.
C17_ExternalResolutionOnceInPlace ==
    AtHand =>
        /\ cur.external <= 1
        /\ forcePublish => cur.external = 0 /\ pc # "external"
        /\ (~forcePublish /\ (pc \in AfterExternal \/ status[fileIdx] = "SUCCESS")) =>
               cur.external = 1
        /\ cur.external = 1 => file.path \in cur.modelManager.models
        /\ (pc = "external" \/ ExternalFailed) =>
               /\ cur.external = 1
               /\ cur.umlURL = ""
               /\ cur.calls = <<>>
               /\ Produced = {}
        /\ ExternalFailed =>
               /\ pc = "loop"
               /\ status[fileIdx] = "FAILED"
               /\ ~Indexed(fileIdx)

\* C17 witness: FORCE_PUBLISH unset, the file indexed after one call
C17_Witness ==
    /\ AtHand
    /\ ~forcePublish
    /\ status[fileIdx] = "SUCCESS"
    /\ cur.external = 1
    /\ Indexed(fileIdx)

DiagramFailed == LogLine("plantuml", cur.destPath, "error") \in log
AstFailed     == LogLine("ast", cur.destPath, "error") \in log

\* C18: an error in the diagram step or in the AST dump is logged by the step
\* and does not reach the loop: the diagram URL is absent, every generator is
\* still called, and the copy, the page and the entry follow as for any file.
C18_DiagramAndAstFailuresAreIsolated ==
    AtHand =>
        /\ \A l \in LoopErrors : l.message \notin {"plantuml", "ast"}
        /\ DiagramFailed => cur.umlURL = "undefined"
        /\ (DiagramFailed \/ AstFailed) =>
               /\ \A l \in LoopErrors : l.message \in {"copy", "render"}
               /\ pc \in {"ast", "generate", "accept", "copy", "render", "loop"}
               /\ pc \in {"copy", "render", "loop"} => Len(cur.calls) = limits.gens
               /\ pc = "render" => Output(fileIdx, "cto", "", <<>>) \in disk
               /\ (pc = "loop" /\ LoopErrors = {}) =>
                      /\ status[fileIdx] = "SUCCESS"
                      /\ Indexed(fileIdx)
                      /\ Output(fileIdx, "cto", "", <<>>) \in disk

\* C18 witness: the diagram step and the AST dump both failed, both generators
\* were called and the file was indexed
C18_Witness ==
    /\ AtHand
    /\ DiagramFailed /\ AstFailed
    /\ cur.umlURL = "undefined"
    /\ Len(cur.calls) = 2
    /\ status[fileIdx] = "SUCCESS"
    /\ Indexed(fileIdx)

\* the index page, written or still to be written
IndexWrites == {o \in disk \cup pending : o.kind = "index.html"}

\* every file of the list has been passed over or has ended
AllEnded ==
    /\ fileIdx = Len(files) + 1
    /\ Len(status) = Len(files)
    /\ \A i \in 1..Len(files) : status[i] \in Terminal \cup {"FILTERED"}

\* the index is rendered and its write issued only by the step after the
\* loop, and no more than once
IndexOnlyAfterLoop ==
    fn = "main" =>
        /\ indexPage.renders <= 1 /\ indexPage.writes <= 1
        /\ Cardinality(IndexWrites) <= indexPage.writes
        /\ (indexPage.done \/ indexPage.renders > 0 \/ indexPage.writes > 0) =>
               (pc = "done" /\ AllEnded)
        /\ pc = "done" =>
               indexPage.done /\ indexPage.renders = 1 /\ indexPage.writes = 1
        /\ pc \in {"rejected", "exited"} => (AllEnded \/ (fileIdx = 0 /\ status = <<>>))

\* C19 as stated: in every run the index page is rendered and its write issued,
\* once, and only after every file of the list has ended.
C19_IndexAlwaysWrittenOnce ==
    /\ []IndexOnlyAfterLoop
    /\ <>(indexPage.done)

\* C19, amended: the index page is rendered and its write issued at most once
\* and only after every file of the list has ended, failed files included.
\* A run comes to render the index page and issue its write, once, unless its
\* main function rejects (before the loop, with no file processed, lines
\* 232-244, or in the rendering of the index template, line 353) or the
\* external fetch of a file (line 305, no timeout) never settles; such a run
\* has no index page.
C19_IndexWrittenOnceUnlessRunEndsEarly ==
    /\ []IndexOnlyAfterLoop
    /\ <>(indexPage.done \/ pc = "rejected" \/ pc = "hung")

\* C19 witness: both files failed and the index page was rendered, with no
\* entry
C19_Witness ==
    /\ indexPage.done
    /\ status = <<"FAILED", "FAILED">>
    /\ indexPage.modelFileIndex = <<>>
    /\ indexPage.renders = 1 /\ indexPage.writes = 1
    /\ IndexWrites # {}

CompileFailed == LogLine("error", file.path, "compile") \in log

\* C20: a file that has not been compiled has nothing in the destination tree,
\* written or to be written, and no entry; a file whose compilation failed stays
\* so, legacy-scheme path or not: the copy comes only after the compile step.
C20_NothingBeforeCompile ==
    AtHand =>
        /\ ~Compiled =>
               /\ Produced = {}
               /\ ~Indexed(fileIdx)
               /\ cur.calls = <<>>
               /\ cur.umlURL = ""
        /\ CompileFailed =>
               /\ ~Compiled
               /\ pc = "loop"
               /\ status[fileIdx] = "FAILED"
        /\ Output(fileIdx, "cto", "", <<>>) \in disk => Compiled

\* C20 witness: a file on a legacy-scheme path failed to compile and left
\* nothing
C20_Witness ==
    /\ AtHand
    /\ isLegacyOf[file]
    /\ CompileFailed
    /\ Produced = {}
    /\ status[fileIdx] = "FAILED"

=============================================================================
